---- MODULE Spec2Model ----
\* Campus subway map (subway/src/App.jsx): node selection, breadth-first
\* route search (findRoute), the route panel (displayRoute) and the Clear,
\* Route and map-click handlers.
EXTENDS Integers, Sequences, FiniteSets, TLC

VARIABLES
    nodes,           \* useState nodes: sequence of [id, name, edges]
    startNode,       \* useState startNode (Null when unset)
    endNode,         \* useState endNode (Null when unset)
    route,           \* useState route: sequence of node ids
    isRouteVisible,  \* useState isRouteVisible
    panel,           \* what the route panel shows after the last render
    pc,              \* position of a findRoute run: idle/start/loop/returned/threw
    queue,           \* findRoute's queue of [id, path]
    visited,         \* findRoute's visited set
    result,          \* findRoute's return value
    pushed           \* every id handed to the queue so far, in order

vars == <<nodes, startNode, endNode, route, isRouteVisible, panel,
          pc, queue, visited, result, pushed>>

uiVars == <<startNode, endNode, route, isRouteVisible, panel>>
runVars == <<pc, queue, visited, result, pushed>>

\* ---------------------------------------------------------------- bounds
\* Nodes of the loaded map in the user-interface specification.
MaxNodes == 4
\* Nodes of the loaded graph in the specification of one findRoute run.
RunNodes == 3
\* Edges of the loaded graph in the specification of one findRoute run.
MaxEdges == 3

\* null, the initial value of startNode and endNode.
Null == 0

\* ---------------------------------------------------------------- data
\* Display names of the nodes, by id (the stations the line tables name).
NodeNames ==
    <<"East Hudson", "Summit", "Lane", "Schottenstein", "West Campus",
      "Medical Center", "RPAC">>

blueConnections ==
    { <<"Lane", "Summit">>, <<"Summit", "East Hudson">>,
      <<"East Hudson", "Old North">>, <<"Old North", "Patterson">>,
      <<"Patterson", "Lane">> }

orangeConnections ==
    { <<"Lane", "Schottenstein">>, <<"Schottenstein", "West Campus">>,
      <<"West Campus", "Medical Center">>, <<"Medical Center", "RPAC">> }

yellowConnections ==
    { <<"RPAC", "South Dorms">>, <<"South Dorms", "South Neil">>,
      <<"South Neil", "King Ave">>, <<"King Ave", "11th Ave">>,
      <<"11th Ave", "The Union">> }

\* `${a}-${b}`: the two names in order (no station name contains "-").
Connection(a, b) == <<a, b>>

\* ---------------------------------------------------------------- lookups
\* nodes.find(node => node.id === id) finds a node.
HasNode(ns, id) == \E i \in DOMAIN ns : ns[i].id = id

\* nodes.find(node => node.id === id): the first node with that id.
Find(ns, id) ==
    LET idx == { i \in DOMAIN ns : ns[i].id = id }
    IN  ns[CHOOSE i \in idx : \A j \in idx : i <= j]

\* nodes.find(node => node.id === id)?.name
NameOf(ns, id) == IF HasNode(ns, id) THEN Find(ns, id).name ELSE "undefined"

\* ---------------------------------------------------------------- findRoute
\* queue.shift() leaves the rest of the queue.
ShiftKeepsHead(q) == q
Shift(q) == Tail(q)

\* [...path, edgeId]
ExtendPathWithCurrent(path, currentNodeId, edgeId) == Append(path, currentNodeId)
ExtendPath(path, currentNodeId, edgeId) == Append(path, edgeId)

\* return path; (path already ends with currentNodeId)
ReturnPathAppended(path, currentNodeId) == Append(path, currentNodeId)
ReturnPath(path, currentNodeId) == path

\* visited.add(edgeId)
MarkVisited(v, edgeId) == v \cup {edgeId}

\* const visited = new Set(); const queue = [[startNode, [startNode]]];
InitRun(s) ==
    [pc |-> "loop", queue |-> <<[id |-> s, path |-> <<s>>]>>, visited |-> {},
     result |-> <<>>, pushed |-> <<s>>]

\* if (!startNode || !endNode) return [];
EarlyReturn == [pc |-> "returned", queue |-> <<>>, visited |-> {},
                result |-> <<>>, pushed |-> <<>>]

\* currentNode.edges.forEach(edgeId => { if (!visited.has(edgeId)) { ... } })
RECURSIVE ForEachEdge(_, _, _, _, _)
ForEachEdge(edges, k, currentNodeId, path, st) ==
    IF k > Len(edges) THEN st
    ELSE LET edgeId == edges[k]
         IN  IF edgeId \notin st.visited
             THEN ForEachEdge(edges, k + 1, currentNodeId, path,
                    [st EXCEPT !.visited = MarkVisited(@, edgeId),
                               !.queue = Append(@, [id |-> edgeId,
                                   path |-> ExtendPath(path, currentNodeId, edgeId)]),
                               !.pushed = Append(@, edgeId)])
             ELSE ForEachEdge(edges, k + 1, currentNodeId, path, st)

\* One pass of while (queue.length > 0) { ... }, or the return [] after it.
Step(ns, e, st) ==
    IF st.queue = <<>>
    THEN [st EXCEPT !.pc = "returned", !.result = <<>>]
    ELSE LET head == Head(st.queue)
             rest == [st EXCEPT !.queue = Shift(st.queue)]
         IN  IF head.id = e
             THEN [rest EXCEPT !.pc = "returned", !.result = ReturnPath(head.path, head.id)]
             ELSE IF ~HasNode(ns, head.id)
             THEN [rest EXCEPT !.pc = "threw"]
             ELSE ForEachEdge(Find(ns, head.id).edges, 1, head.id, head.path, rest)

RECURSIVE RunToEnd(_, _, _)
RunToEnd(ns, e, st) ==
    IF st.pc # "loop" THEN st ELSE RunToEnd(ns, e, Step(ns, e, st))

\* findRoute() on the state (nodes, startNode, endNode), run to its end.
FindRoute(ns, s, e) ==
    IF s = Null \/ e = Null THEN EarlyReturn ELSE RunToEnd(ns, e, InitRun(s))

\* ---------------------------------------------------------------- displayRoute
Line(kind, arg) == [kind |-> kind, arg |-> arg]

\* let newLineColor = 'green'; if (blueConnections.has(...) ...
LineColor(currentNode, nextNode) ==
    IF Connection(currentNode, nextNode) \in blueConnections
         \/ Connection(nextNode, currentNode) \in blueConnections
    THEN "blue"
    ELSE IF Connection(currentNode, nextNode) \in orangeConnections
              \/ Connection(nextNode, currentNode) \in orangeConnections
    THEN "orange"
    ELSE IF Connection(currentNode, nextNode) \in yellowConnections
              \/ Connection(nextNode, currentNode) \in yellowConnections
    THEN "yellow"
    ELSE "green"

\* for (let i = 0; i < pathNames.length - 2; i++) { ... }  (i is 0-based)
RECURSIVE DisplayLoop(_, _, _, _)
DisplayLoop(pathNames, i, currentLineColor, res) ==
    IF i < Len(pathNames) - 2
    THEN LET currentNode == pathNames[i + 1]
             nextNode == pathNames[i + 2]
             newLineColor == LineColor(currentNode, nextNode)
             r1 == IF newLineColor # currentLineColor /\ currentLineColor # ""
                   THEN Append(res, Line("Transfer", newLineColor))
                   ELSE res
         IN  DisplayLoop(pathNames, i + 1, newLineColor,
                         Append(r1, Line("Stop", nextNode)))
    ELSE res

\* pathIds.map(id => nodes.find(node => node.id === id)?.name)
PathNames(ns, pathIds) == [i \in 1..Len(pathIds) |-> NameOf(ns, pathIds[i])]

\* displayRoute(): the lines of the route plan, 'No route found', or the
\* exception findRoute threw.
DisplayRoute(ns, s, e) ==
    LET fr == FindRoute(ns, s, e)
        pathNames == PathNames(ns, fr.result)
    IN  IF fr.pc = "threw" THEN <<Line("Threw", "")>>
        ELSE IF Len(pathNames) = 0 THEN <<Line("No route found", "")>>
        ELSE Append(DisplayLoop(pathNames, 0, "",
                        <<Line("Route Plan", ""), Line("Start", pathNames[1])>>),
                    Line("End", pathNames[Len(pathNames)]))

\* {isRouteVisible && route.length > 0 && (<p ... displayRoute() ...>)}
Render(ns, s, e, r, v) ==
    IF v /\ Len(r) > 0 THEN DisplayRoute(ns, s, e) ELSE <<>>

\* ---------------------------------------------------------------- inputs
RECURSIVE SortedSeq(_)
SortedSeq(S) ==
    IF S = {} THEN <<>>
    ELSE LET m == CHOOSE x \in S : \A y \in S : x <= y
         IN  <<m>> \o SortedSeq(S \ {m})

\* A loaded map whose adjacency is declared symmetrically: links is a set of
\* two-element sets of node ids.
MapOf(n, links) ==
    [i \in 1..n |->
        [id |-> i, name |-> NodeNames[i],
         edges |-> SortedSeq({ j \in 1..n : j # i /\ {i, j} \in links })]]

LoadedMaps ==
    { MapOf(MaxNodes, links) :
        links \in SUBSET { l \in SUBSET (1..MaxNodes) : Cardinality(l) = 2 } }

\* The edges a loaded graph may declare: from a loaded node to a loaded node
\* or to the id of no loaded node (RunNodes + 1).
EdgePairs == (1..RunNodes) \X (1..(RunNodes + 1))

\* At most MaxEdges distinct edges, in the order the data declares them.
EdgeSeqs ==
    UNION { { f \in [1..k -> EdgePairs] :
                \A a, b \in 1..k : a # b => f[a] # f[b] } : k \in 0..MaxEdges }

\* The edges list of node i: the targets of its edges, in declared order.
EdgesOf(es, i) ==
    LET sel == SelectSeq(es, LAMBDA p : p[1] = i)
    IN  [k \in 1..Len(sel) |-> sel[k][2]]

RunGraphs ==
    { [i \in 1..RunNodes |->
          [id |-> i, name |-> NodeNames[i], edges |-> EdgesOf(es, i)]] :
        es \in EdgeSeqs }

\* ---------------------------------------------------------------- UI specification
Init ==
    /\ nodes \in LoadedMaps
    /\ startNode = Null
    /\ endNode = Null
    /\ route = <<>>
    /\ isRouteVisible = FALSE
    /\ panel = <<>>
    /\ pc = "idle"
    /\ queue = <<>>
    /\ visited = {}
    /\ result = <<>>
    /\ pushed = <<>>

\* handleNodeClick(node.id) of a marker
HandleNodeClick ==
    /\ pc = "idle"
    /\ \E i \in DOMAIN nodes :
         LET nodeId == nodes[i].id
         IN  IF startNode = Null
             THEN startNode' = nodeId /\ endNode' = endNode
             ELSE IF endNode = Null /\ nodeId # startNode
             THEN endNode' = nodeId /\ startNode' = startNode
             ELSE UNCHANGED <<startNode, endNode>>
    /\ UNCHANGED <<route, isRouteVisible>>
    /\ panel' = Render(nodes, startNode', endNode', route', isRouteVisible')
    /\ UNCHANGED <<nodes, runVars>>

\* Route button: onClick={() => { setRoute(findRoute()); setIsRouteVisible(true); }}
RouteButton ==
    /\ pc = "idle"
    /\ startNode # Null /\ endNode # Null
    /\ LET fr == FindRoute(nodes, startNode, endNode)
       IN  IF fr.pc = "threw"
           THEN UNCHANGED <<route, isRouteVisible>>
           ELSE route' = fr.result /\ isRouteVisible' = TRUE
    /\ UNCHANGED <<startNode, endNode>>
    /\ panel' = Render(nodes, startNode', endNode', route', isRouteVisible')
    /\ UNCHANGED <<nodes, runVars>>

\* clearSelections
ClearSelectionsKeepsRoute ==
    /\ pc = "idle"
    /\ startNode' = Null
    /\ endNode' = Null
    /\ isRouteVisible' = FALSE
    /\ UNCHANGED route
    /\ panel' = Render(nodes, startNode', endNode', route', isRouteVisible')
    /\ UNCHANGED <<nodes, runVars>>

ClearSelections ==
    /\ pc = "idle"
    /\ startNode' = Null
    /\ endNode' = Null
    /\ route' = <<>>
    /\ isRouteVisible' = FALSE
    /\ panel' = Render(nodes, startNode', endNode', route', isRouteVisible')
    /\ UNCHANGED <<nodes, runVars>>

\* ClickAwayHandler: click on the map background
MapClick ==
    /\ pc = "idle"
    /\ route' = <<>>
    /\ UNCHANGED <<startNode, endNode, isRouteVisible>>
    /\ panel' = Render(nodes, startNode', endNode', route', isRouteVisible')
    /\ UNCHANGED <<nodes, runVars>>

Next == HandleNodeClick \/ RouteButton \/ ClearSelections \/ MapClick

Spec == Init /\ [][Next]_vars

\* ---------------------------------------------------------------- one findRoute run
\* The selections handleNodeClick and clearSelections can leave: nothing, a
\* start alone, or a start and a different end, each the id of a loaded node.
\* RunGraphs is closed under renaming the loaded ids, so node 1 stands for
\* every start node.
RunSelections ==
    { <<Null, Null>>, <<1, Null>> } \cup { <<1, e>> : e \in 2..RunNodes }

\* A call of findRoute on a loaded graph and a selection.
InitFindRoute ==
    /\ nodes \in RunGraphs
    /\ \E sel \in RunSelections : startNode = sel[1] /\ endNode = sel[2]
    /\ route = <<>>
    /\ isRouteVisible = FALSE
    /\ panel = <<>>
    /\ pc = "start"
    /\ queue = <<>>
    /\ visited = {}
    /\ result = <<>>
    /\ pushed = <<>>

RunState ==
    [pc |-> pc, queue |-> queue, visited |-> visited, result |-> result,
     pushed |-> pushed]

SetRun(st) ==
    /\ pc' = st.pc
    /\ queue' = st.queue
    /\ visited' = st.visited
    /\ result' = st.result
    /\ pushed' = st.pushed
    /\ UNCHANGED <<nodes, uiVars>>

\* if (!startNode || !endNode) return [];
RunEarlyReturn ==
    /\ pc = "start"
    /\ startNode = Null \/ endNode = Null
    /\ SetRun(EarlyReturn)

\* const visited = new Set(); const queue = [[startNode, [startNode]]];
RunBegin ==
    /\ pc = "start"
    /\ startNode # Null /\ endNode # Null
    /\ SetRun(InitRun(startNode))

\* if (currentNodeId === endNode) return path;
RunReturnPath ==
    /\ pc = "loop"
    /\ queue # <<>>
    /\ Head(queue).id = endNode
    /\ SetRun(Step(nodes, endNode, RunState))

\* currentNode.edges on a currentNode that nodes.find did not find
RunThrow ==
    /\ pc = "loop"
    /\ queue # <<>>
    /\ Head(queue).id # endNode
    /\ ~HasNode(nodes, Head(queue).id)
    /\ SetRun(Step(nodes, endNode, RunState))

\* currentNode.edges.forEach(...)
RunExpand ==
    /\ pc = "loop"
    /\ queue # <<>>
    /\ Head(queue).id # endNode
    /\ HasNode(nodes, Head(queue).id)
    /\ SetRun(Step(nodes, endNode, RunState))

\* queue.length > 0 fails: return [];
RunExhausted ==
    /\ pc = "loop"
    /\ queue = <<>>
    /\ SetRun(Step(nodes, endNode, RunState))

NextRun ==
    RunEarlyReturn \/ RunBegin \/ RunReturnPath \/ RunThrow \/ RunExpand
        \/ RunExhausted

SpecRun == InitFindRoute /\ [][NextRun]_vars

\* The run is synchronous JavaScript: once called it keeps executing.
FairSpecRun == SpecRun /\ WF_vars(NextRun)

\* ---------------------------------------------------------------- graph facts
\* Every id in an edges list is the id of a loaded node.
ValidEdges(ns) ==
    \A i \in DOMAIN ns : \A k \in DOMAIN ns[i].edges : HasNode(ns, ns[i].edges[k])

\* v is in u's edges list.
IsEdge(ns, u, v) ==
    /\ HasNode(ns, u)
    /\ \E k \in DOMAIN Find(ns, u).edges : Find(ns, u).edges[k] = v

\* The ids at most k hops from s.
RECURSIVE Within(_, _, _)
Within(ns, s, k) ==
    IF k = 0 THEN {s}
    ELSE LET W == Within(ns, s, k - 1)
         IN  W \cup { v \in 1..(Len(ns) + 1) : \E u \in W : IsEdge(ns, u, v) }

Reachable(ns, s, e) == e \in Within(ns, s, Len(ns))

MinHops(ns, s, e) ==
    CHOOSE k \in 0..Len(ns) :
        /\ e \in Within(ns, s, k)
        /\ k = 0 \/ e \notin Within(ns, s, k - 1)

NoRepeats(seq) == \A a, b \in DOMAIN seq : a # b => seq[a] # seq[b]

RunEnded == pc \in {"returned", "threw"}

\* Both selected, both ids of loaded nodes, in a graph without dangling edges.
ValidRunInput ==
    /\ ValidEdges(nodes)
    /\ HasNode(nodes, startNode)
    /\ HasNode(nodes, endNode)

\* The graph with every edge to an id of no loaded node removed.
RemoveDangling(ns) ==
    [i \in DOMAIN ns |->
        [ns[i] EXCEPT !.edges = SelectSeq(@, LAMBDA x : HasNode(ns, x))]]

\* ---------------------------------------------------------------- claims
\* C1: on a graph whose edges name loaded nodes, for distinct s and e with e
\* reachable from s, findRoute returns a path that begins with s, ends with
\* e, follows edges, and has the minimum number of hops.
C1_ShortestPath ==
    (RunEnded /\ ValidRunInput /\ startNode # endNode
        /\ Reachable(nodes, startNode, endNode))
    => /\ pc = "returned"
       /\ Len(result) >= 2
       /\ result[1] = startNode
       /\ result[Len(result)] = endNode
       /\ \A k \in 1..(Len(result) - 1) : IsEdge(nodes, result[k], result[k + 1])
       /\ Len(result) - 1 = MinHops(nodes, startNode, endNode)

\* A two-hop route returned although the start re-entered the queue.
C1_Witness ==
    /\ pc = "returned" /\ ValidRunInput /\ startNode # endNode
    /\ Reachable(nodes, startNode, endNode)
    /\ Len(result) = 3
    /\ MinHops(nodes, startNode, endNode) = 2
    /\ ~NoRepeats(pushed)

\* C2 (as claimed): findRoute returns the empty path, without an exception,
\* when the end is unreachable or the start or end id is no loaded node's.
C2_EmptyOnUnknownOrUnreachable ==
    (RunEnded /\ startNode # Null /\ endNode # Null
        /\ (\/ ~HasNode(nodes, startNode)
            \/ ~HasNode(nodes, endNode)
            \/ ~Reachable(nodes, startNode, endNode)))
    => (pc = "returned" /\ result = <<>>)

\* C3 (as claimed): with a dangling edge in the graph and a valid start and
\* end, findRoute completes without an error and returns what it returns on
\* the graph with the dangling edges removed.
C3_DanglingEdgeSkipped ==
    (RunEnded /\ ~ValidEdges(nodes) /\ HasNode(nodes, startNode)
        /\ HasNode(nodes, endNode))
    => /\ pc = "returned"
       /\ result = FindRoute(RemoveDangling(nodes), startNode, endNode).result

\* C7: a non-empty path returned for start # end repeats no node id.
C7_NoRepeatedNode ==
    (pc = "returned" /\ startNode # endNode /\ result # <<>>)
    => NoRepeats(result)

\* A route returned from a run in which the start node was queued again
\* (an edge back to the start) or a node lists itself.
C7_Witness ==
    /\ pc = "returned" /\ startNode # endNode
    /\ Len(result) = 3
    /\ ~NoRepeats(pushed)
    /\ \E i \in DOMAIN nodes : IsEdge(nodes, nodes[i].id, nodes[i].id)

\* C8 (as claimed): in one run every node id, the start included, is put on
\* the queue at most once.
C8_EnqueuedAtMostOnce ==
    ValidRunInput => NoRepeats(pushed)

\* C9: on a graph whose edges name loaded nodes and a selection of loaded
\* nodes, the run of findRoute ends by returning.
C9_Terminates == ValidRunInput => <>(pc = "returned")

\* A run that returned on a graph with a cycle through the start node.
C9_Witness ==
    /\ pc = "returned" /\ ValidRunInput /\ startNode # endNode
    /\ ~NoRepeats(pushed)

\* ---------------------------------------------------------------- UI claims
NodeKinds == {"Start", "Stop", "End"}

\* Loop passes of displayRoute that classified a segment: each appends the
\* name of the segment's far node.
SegmentsClassified(p) == Cardinality({ q \in DOMAIN p : p[q].kind = "Stop" })

\* The line of the panel that shows the m-th node of the path.
NodeLinePos(p, m) ==
    CHOOSE q \in DOMAIN p :
        /\ p[q].kind \in NodeKinds
        /\ Cardinality({ r \in 1..q : p[r].kind \in NodeKinds }) = m

\* The colour of the k-th segment of the shown route.
SegLine(k) ==
    LineColor(NameOf(nodes, route[k]), NameOf(nodes, route[k + 1]))

\* A transfer onto the k-th segment's line is shown where that segment starts.
TransferReportedAt(p, k) ==
    LET q == NodeLinePos(p, k + 1)
    IN  p[q - 1] = Line("Transfer", SegLine(k))

PanelShowsRoute == panel # <<>> /\ panel[1].kind = "Route Plan"

\* C4 (as claimed): for a path of n nodes the classification evaluates
\* every consecutive pair, n - 1 segments.
C4_EverySegmentClassified ==
    PanelShowsRoute => SegmentsClassified(panel) = Len(route) - 1

\* C5 (as claimed): a transfer is reported at a segment exactly when it is
\* not the first and its line differs from the preceding segment's line.
C5_TransferExactlyOnLineChange ==
    PanelShowsRoute =>
        \A k \in 1..(Len(route) - 1) :
            TransferReportedAt(panel, k)
                <=> (k > 1 /\ SegLine(k) # SegLine(k - 1))

\* C6 (as claimed): after Route on a disconnected pair the panel presents
\* "No route found".
C6_NoRouteFoundShown ==
    (isRouteVisible /\ startNode # Null /\ endNode # Null
        /\ FindRoute(nodes, startNode, endNode).result = <<>>)
    => panel = <<Line("No route found", "")>>

\* C10: a stored non-empty route runs from the selected start to the
\* selected end, both set and different.
C10_RouteMatchesSelection ==
    route # <<>> =>
        /\ startNode # Null /\ endNode # Null /\ startNode # endNode
        /\ route[1] = startNode
        /\ route[Len(route)] = endNode

\* A stored route of three hops.
C10_Witness ==
    /\ Len(route) = 4 /\ isRouteVisible
    /\ route[1] = startNode /\ route[4] = endNode

====
